---- MODULE Spec2Model ----
(***************************************************************************)
(* Model of the partial Merkle-Patricia trie node layer: NodeData and its  *)
(* RLP codec, the content-addressed Nodes store, and the Trie walk that    *)
(* uses them.  Byte strings are sequences over 0..255, nibble paths are    *)
(* sequences over 0..15, digests are byte strings of length HashLen.       *)
(***************************************************************************)
EXTENDS Integers, Sequences, FiniteSets, TLC

VARIABLES nodes, root, kv, last, steps, cIn, cMid, cOut

vars == <<nodes, root, kv, last, steps, cIn, cMid, cOut>>

\* ------------------------------------------------------------------------
\* Program constants
\* ------------------------------------------------------------------------
HashLen == 32
BranchLen == 17

\* ------------------------------------------------------------------------
\* Bounds of the model
\* ------------------------------------------------------------------------
MaxKeyLen == 2
MaxOps == 2
MaxTrieOps == 3
MaxSlots == 2

\* ------------------------------------------------------------------------
\* Results: Ok(v) / Err(e)
\* ------------------------------------------------------------------------
Ok(v) == [st |-> "ok", v |-> v]
Err(e) == [st |-> "err", e |-> e]
Unset == [st |-> "none"]
IsOk(r) == r.st = "ok"
IsErr(r) == r.st = "err"

\* let v = ...; F(v): the value is computed once and named in what follows
Bind(v, F(_)) == F(v)

\* Option<T>: None is the empty sequence, Some(x) the one-element sequence
None == <<>>
Some(x) == <<x>>
is_some(o) == Len(o) = 1
unwrap(o) == o[1]

\* ------------------------------------------------------------------------
\* Byte-string helpers
\* ------------------------------------------------------------------------
SubBytes(b, from, len) == SubSeq(b, from, from + len - 1)

RECURSIVE Concat(_)
Concat(ss) == IF ss = <<>> THEN <<>> ELSE Head(ss) \o Concat(Tail(ss))

\* big-endian minimal encoding of a length (no leading zero byte)
RECURSIVE BigEndian(_)
BigEndian(n) == IF n < 256 THEN <<n>> ELSE BigEndian(n \div 256) \o <<n % 256>>

RECURSIVE FromBigEndian(_)
FromBigEndian(b) ==
    IF b = <<>> THEN 0
    ELSE FromBigEndian(SubBytes(b, 1, Len(b) - 1)) * 256 + b[Len(b)]

\* ------------------------------------------------------------------------
\* RLP stream (rlp::RlpStream): begin_list(n) followed by n appends of
\* byte strings, out()
\* ------------------------------------------------------------------------
RlpAppend(b) ==
    IF Len(b) = 1 /\ b[1] < 128 THEN b
    ELSE IF Len(b) < 56 THEN <<128 + Len(b)>> \o b
    ELSE <<183 + Len(BigEndian(Len(b)))>> \o BigEndian(Len(b)) \o b

RlpList(items) ==
    LET payload == Concat([i \in 1..Len(items) |-> RlpAppend(items[i])])
    IN  IF Len(payload) < 56 THEN <<192 + Len(payload)>> \o payload
        ELSE <<247 + Len(BigEndian(Len(payload)))>> \o BigEndian(Len(payload)) \o payload

\* ------------------------------------------------------------------------
\* RLP view (rlp::Rlp): header of the item that starts at position pos
\* ------------------------------------------------------------------------
RlpHeader(b, pos) ==
    IF pos > Len(b) THEN Err("RlpDecoderError")
    ELSE LET p == b[pos] IN
      IF p < 128 THEN Ok([isList |-> FALSE, off |-> pos, len |-> 1])
      ELSE IF p < 184 THEN
        LET len == p - 128 IN
        IF pos + len > Len(b) THEN Err("RlpDecoderError")
        ELSE IF len = 1 /\ b[pos + 1] < 128 THEN Err("RlpDecoderError")
        ELSE Ok([isList |-> FALSE, off |-> pos + 1, len |-> len])
      ELSE IF p < 192 THEN
        LET ll == p - 183 IN
        IF pos + ll > Len(b) THEN Err("RlpDecoderError")
        ELSE LET len == FromBigEndian(SubBytes(b, pos + 1, ll)) IN
          IF b[pos + 1] = 0 \/ len < 56 \/ pos + ll + len > Len(b)
          THEN Err("RlpDecoderError")
          ELSE Ok([isList |-> FALSE, off |-> pos + 1 + ll, len |-> len])
      ELSE IF p < 248 THEN
        LET len == p - 192 IN
        IF pos + len > Len(b) THEN Err("RlpDecoderError")
        ELSE Ok([isList |-> TRUE, off |-> pos + 1, len |-> len])
      ELSE
        LET ll == p - 247 IN
        IF pos + ll > Len(b) THEN Err("RlpDecoderError")
        ELSE LET len == FromBigEndian(SubBytes(b, pos + 1, ll)) IN
          IF b[pos + 1] = 0 \/ pos + ll + len > Len(b)
          THEN Err("RlpDecoderError")
          ELSE Ok([isList |-> TRUE, off |-> pos + 1 + ll, len |-> len])

\* items of the payload b[pos .. end], each [isList, data]
RECURSIVE RlpPayloadItems(_, _, _)
RlpPayloadItems(b, pos, end) ==
    IF pos > end THEN Ok(<<>>)
    ELSE LET h == RlpHeader(b, pos) IN
      IF IsErr(h) THEN h
      ELSE IF h.v.off + h.v.len - 1 > end THEN Err("RlpDecoderError")
      ELSE LET rest == RlpPayloadItems(b, h.v.off + h.v.len, end) IN
        IF IsErr(rest) THEN rest
        ELSE Ok(<<[isList |-> h.v.isList,
                   data |-> SubBytes(b, h.v.off, h.v.len)]>> \o rest.v)

\* Rlp::new(&raw) as the sequence of its items; an error when raw is not a list
RlpItems(raw) ==
    LET h == RlpHeader(raw, 1) IN
    IF IsErr(h) THEN h
    ELSE IF ~h.v.isList THEN Err("RlpDecoderError")
    ELSE RlpPayloadItems(raw, h.v.off, h.v.off + h.v.len - 1)

\* rlp.at(i)?.data()?
RlpData(items, i) ==
    IF items[i].isList THEN Err("RlpDecoderError") ELSE Ok(items[i].data)

\* ------------------------------------------------------------------------
\* keccak256: a digest of HashLen bytes computed from every byte of the
\* input and its length (two tree residues spread over the digest)
\* ------------------------------------------------------------------------
RECURSIVE TreeResidue(_, _, _, _, _)
TreeResidue(b, lo, hi, m, P) ==
    IF lo > hi THEN 0
    ELSE IF lo = hi THEN b[lo] + 1
    ELSE IF lo + 1 = hi THEN (b[lo] + 1) * 257 + b[hi] + 1
    ELSE IF lo + 2 = hi THEN ((b[lo] + 1) * 257 + b[lo + 1] + 1) * 257 + b[hi] + 1
    ELSE LET mid == (lo + hi) \div 2 IN
         ((TreeResidue(b, lo, mid, m, P) % P) * m
            + TreeResidue(b, mid + 1, hi, m, P) + 1) % P

DigestOf(r1, r2) ==
    [i \in 1..HashLen |->
       IF i = 1 THEN r1 \div 65536
       ELSE IF i = 2 THEN (r1 \div 256) % 256
       ELSE IF i = 3 THEN r1 % 256
       ELSE IF i = 4 THEN r2 \div 65536
       ELSE IF i = 5 THEN (r2 \div 256) % 256
       ELSE IF i = 6 THEN r2 % 256
       ELSE (r1 + i * (r2 % 65536) + i) % 256] \o <<>>

keccak256(b) ==
    CHOOSE d \in { DigestOf(r[1], r[2]) :
                     r \in { <<(TreeResidue(x, 1, Len(x), 263, 8000009) + Len(x)) % 8000009,
                               TreeResidue(x, 1, Len(x), 269, 7900001) % 7900001>> : x \in {b} } } : TRUE

\* ------------------------------------------------------------------------
\* Nibbles (nibble paths and their hex-prefix encoding)
\* ------------------------------------------------------------------------
RECURSIVE PackNibbles(_)
PackNibbles(n) ==
    IF n = <<>> THEN <<>>
    ELSE <<n[1] * 16 + n[2]>> \o PackNibbles(SubBytes(n, 3, Len(n) - 2))

RECURSIVE UnpackBytes(_)
UnpackBytes(b) ==
    IF b = <<>> THEN <<>>
    ELSE <<b[1] \div 16, b[1] % 16>> \o UnpackBytes(Tail(b))

encode_path(n, is_terminator) ==
    LET odd == Len(n) % 2
        flag == (IF is_terminator THEN 2 ELSE 0) + odd
    IN  IF odd = 1 THEN PackNibbles(<<flag>> \o n)
        ELSE PackNibbles(<<flag, 0>> \o n)

from_encoded_path_with_terminator(b) ==
    IF b = <<>> THEN Err("InternalError")
    ELSE LET f == b[1] \div 16
             terminator == (f \div 2) % 2 = 1
             odd == f % 2 = 1
             first == IF odd THEN <<b[1] % 16>> ELSE <<>>
         IN  Ok([key |-> first \o UnpackBytes(Tail(b)), terminator |-> terminator])

RECURSIVE intersect(_, _)
intersect(a, b) ==
    IF a = <<>> \/ b = <<>> \/ a[1] # b[1] THEN <<>>
    ELSE <<a[1]>> \o intersect(Tail(a), Tail(b))

slice(n, offset) ==
    IF offset > Len(n) THEN Err("KeyExhausted")
    ELSE Ok(SubBytes(n, offset + 1, Len(n) - offset))

first_nibble(n) == IF n = <<>> THEN Err("EmptyKey") ELSE Ok(n[1])

\* ------------------------------------------------------------------------
\* NodeData
\* ------------------------------------------------------------------------
Leaf(key, value) == [type |-> "Leaf", key |-> key, value |-> value]
Extension(key, node) == [type |-> "Extension", key |-> key, node |-> node]
Branch(arr) == [type |-> "Branch", arr |-> arr]

\* to_raw_rlp with the Extension path flagged as terminated
to_raw_rlp_terminated(n) ==
    IF n.type = "Leaf" THEN RlpList(<<encode_path(n.key, TRUE), n.value>>)
    ELSE IF n.type = "Branch" THEN
        RlpList([i \in 1..BranchLen |->
                   IF is_some(n.arr[i]) THEN unwrap(n.arr[i]) ELSE <<>>] \o <<>>)
    ELSE RlpList(<<encode_path(n.key, TRUE), n.node>>)

\* to_raw_rlp with absent Branch slots written as a zero digest
to_raw_rlp_zero_slots(n) ==
    IF n.type = "Leaf" THEN RlpList(<<encode_path(n.key, TRUE), n.value>>)
    ELSE IF n.type = "Branch" THEN
        RlpList([i \in 1..BranchLen |->
                   IF is_some(n.arr[i]) THEN unwrap(n.arr[i])
                   ELSE [j \in 1..HashLen |-> 0] \o <<>>] \o <<>>)
    ELSE RlpList(<<encode_path(n.key, FALSE), n.node>>)

to_raw_rlp(n) ==
    IF n.type = "Leaf" THEN RlpList(<<encode_path(n.key, TRUE), n.value>>)
    ELSE IF n.type = "Branch" THEN
        RlpList([i \in 1..BranchLen |->
                   IF is_some(n.arr[i]) THEN unwrap(n.arr[i]) ELSE <<>>] \o <<>>)
    ELSE RlpList(<<encode_path(n.key, FALSE), n.node>>)

\* hash taken over the RLP string wrapping of the node's RLP
hash_wrapped(n) == keccak256(RlpAppend(to_raw_rlp(n)))

hash(n) == keccak256(to_raw_rlp(n))

\* the 17 decoded slots, or the error of the first slot that fails
BranchSlot(items, i) ==
    LET value == RlpData(items, i) IN
    IF IsErr(value) THEN value
    ELSE IF Len(value.v) = HashLen THEN Ok(Some(value.v))
    ELSE IF Len(value.v) = 0 THEN Ok(None)
    ELSE Err("InternalError")

BranchSlots(items) ==
    LET bad == {i \in 1..BranchLen : IsErr(BranchSlot(items, i))} IN
    IF bad # {} THEN BranchSlot(items, CHOOSE i \in bad : \A j \in bad : i <= j)
    ELSE Ok([i \in 1..BranchLen |-> BranchSlot(items, i).v] \o <<>>)

\* from_raw_rlp without the length check on the Extension child
from_raw_rlp_unchecked(raw) ==
    LET items == RlpItems(raw) IN
    IF IsErr(items) THEN items
    ELSE IF Len(items.v) = 2 THEN
        LET val_0 == RlpData(items.v, 1)
            val_1 == RlpData(items.v, 2)
        IN  IF IsErr(val_0) THEN val_0
            ELSE IF IsErr(val_1) THEN val_1
            ELSE LET kt == from_encoded_path_with_terminator(val_0.v) IN
              IF IsErr(kt) THEN kt
              ELSE IF kt.v.terminator THEN Ok(Leaf(kt.v.key, val_1.v))
              ELSE Ok(Extension(kt.v.key, val_1.v))
    ELSE IF Len(items.v) = BranchLen THEN
        LET arr == BranchSlots(items.v) IN
        IF IsErr(arr) THEN arr ELSE Ok(Branch(arr.v))
    ELSE Err("InternalError")

from_raw_rlp(raw) ==
    LET items == RlpItems(raw) IN
    IF IsErr(items) THEN items
    ELSE IF Len(items.v) = 2 THEN
        LET val_0 == RlpData(items.v, 1)
            val_1 == RlpData(items.v, 2)
        IN  IF IsErr(val_0) THEN val_0
            ELSE IF IsErr(val_1) THEN val_1
            ELSE LET kt == from_encoded_path_with_terminator(val_0.v) IN
              IF IsErr(kt) THEN kt
              ELSE IF kt.v.terminator THEN Ok(Leaf(kt.v.key, val_1.v))
              ELSE IF Len(val_1.v) # HashLen THEN Err("InternalError")
              ELSE Ok(Extension(kt.v.key, val_1.v))
    ELSE IF Len(items.v) = BranchLen THEN
        LET arr == BranchSlots(items.v) IN
        IF IsErr(arr) THEN arr ELSE Ok(Branch(arr.v))
    ELSE Err("InternalError")

\* ------------------------------------------------------------------------
\* Nodes: the content-addressed store, a function from digest to NodeData
\* ------------------------------------------------------------------------
NodesNew == <<>>

Put(ns, key, n) == [h \in DOMAIN ns \cup {key} |-> IF h = key THEN n ELSE ns[h]]

\* HashMap::get
NodesGet(ns, h) == IF h \in DOMAIN ns THEN Some(ns[h]) ELSE None

\* insert that never reports the value it replaces
insert_no_prior(ns, node_data) ==
    LET key == hash(node_data) IN
    [key |-> key, prior |-> None, nodes |-> Put(ns, key, node_data)]

\* Nodes::insert: the digest, the value stored under it before, the new store
insert(ns, node_data) ==
    Bind(hash(node_data), LAMBDA key :
      [key |-> key, prior |-> NodesGet(ns, key), nodes |-> Put(ns, key, node_data)])

\* Nodes::remove
remove(ns, h) ==
    [prior |-> NodesGet(ns, h), nodes |-> [k \in DOMAIN ns \ {h} |-> ns[k]]]

\* Nodes::create_leaf
create_leaf(ns, key, value) == insert(ns, Leaf(key, value))

EmptyBranchArr == [i \in 1..BranchLen |-> None] \o <<>>

\* create_branch_or_extension with one deviation m:
\*   "same_slot"     the slots are taken from the keys, not from their remainders
\*   "always_insert" the Branch is inserted whatever the length of the prefix
\*   "early_leaf"    the first leaf is written before the second remainder is looked at
cbe_deviating(ns, key_a, value_a, key_b, value_b, m) ==
    LET intersection == intersect(key_a, key_b)
        key_a_prime == slice(key_a, Len(intersection))
        key_b_prime == slice(key_b, Len(intersection))
    IN
    IF IsErr(key_a_prime) THEN [res |-> key_a_prime, nodes |-> ns]
    ELSE IF IsErr(key_b_prime) THEN [res |-> key_b_prime, nodes |-> ns]
    ELSE
      LET nibble_a == first_nibble(IF m = "same_slot" /\ key_a_prime.v # <<>>
                                   THEN key_a ELSE key_a_prime.v)
          nibble_b == first_nibble(IF m = "same_slot" /\ key_b_prime.v # <<>>
                                   THEN key_b ELSE key_b_prime.v)
      IN
      IF IsErr(nibble_a) THEN [res |-> nibble_a, nodes |-> ns]
      ELSE IF IsErr(nibble_b)
      THEN [res |-> nibble_b,
            nodes |-> IF m = "early_leaf"
                      THEN insert(ns, Leaf(key_a_prime.v, value_a)).nodes ELSE ns]
      ELSE
        LET la == insert(ns, Leaf(key_a_prime.v, value_a))
            lb == insert(la.nodes, Leaf(key_b_prime.v, value_b))
            arr1 == [[i \in 1..BranchLen |-> None] \o <<>>
                        EXCEPT ![nibble_a.v + 1] = Some(la.key)]
            arr2 == [arr1 EXCEPT ![nibble_b.v + 1] = Some(lb.key)]
            branch == Branch(arr2)
        IN
        IF Len(intersection) > 0 \/ m = "always_insert"
        THEN LET ib == insert(lb.nodes, branch) IN
             [res |-> IF Len(intersection) > 0
                      THEN Ok(Extension(intersection, ib.key)) ELSE Ok(branch),
              nodes |-> ib.nodes]
        ELSE [res |-> Ok(branch), nodes |-> lb.nodes]

cbe_same_slot(ns, key_a, value_a, key_b, value_b) ==
    cbe_deviating(ns, key_a, value_a, key_b, value_b, "same_slot")

cbe_always_insert(ns, key_a, value_a, key_b, value_b) ==
    cbe_deviating(ns, key_a, value_a, key_b, value_b, "always_insert")

cbe_early_leaf(ns, key_a, value_a, key_b, value_b) ==
    cbe_deviating(ns, key_a, value_a, key_b, value_b, "early_leaf")

\* Nodes::create_branch_or_extension: the result and the store it leaves
create_branch_or_extension(ns, key_a, value_a, key_b, value_b) ==
    LET intersection == intersect(key_a, key_b)
        key_a_prime == slice(key_a, Len(intersection))
        key_b_prime == slice(key_b, Len(intersection))
    IN
    IF IsErr(key_a_prime) THEN [res |-> key_a_prime, nodes |-> ns]
    ELSE IF IsErr(key_b_prime) THEN [res |-> key_b_prime, nodes |-> ns]
    ELSE
      LET nibble_a == first_nibble(key_a_prime.v)
          nibble_b == first_nibble(key_b_prime.v)
      IN
      IF IsErr(nibble_a) THEN [res |-> nibble_a, nodes |-> ns]
      ELSE IF IsErr(nibble_b) THEN [res |-> nibble_b, nodes |-> ns]
      ELSE
        Bind(create_leaf(ns, key_a_prime.v, value_a), LAMBDA hash_a :
        Bind(create_leaf(hash_a.nodes, key_b_prime.v, value_b), LAMBDA hash_b :
        Bind(Branch([[EmptyBranchArr EXCEPT ![nibble_a.v + 1] = Some(hash_a.key)]
                        EXCEPT ![nibble_b.v + 1] = Some(hash_b.key)]), LAMBDA branch :
          IF Len(intersection) > 0
          THEN Bind(insert(hash_b.nodes, branch), LAMBDA branch_hash :
                 [res |-> Ok(Extension(intersection, branch_hash.key)),
                  nodes |-> branch_hash.nodes])
          ELSE [res |-> Ok(branch), nodes |-> hash_b.nodes])))

\* ------------------------------------------------------------------------
\* Inputs
\* ------------------------------------------------------------------------
NibbleVals == {0, 15}

RECURSIVE PathsOfLen(_)
PathsOfLen(n) ==
    IF n = 0 THEN {<<>>}
    ELSE {<<x>> \o p : x \in NibbleVals, p \in PathsOfLen(n - 1)}

Keys == UNION {PathsOfLen(n) : n \in 0..MaxKeyLen}

\* keys handed to the store and the trie: a run of nibble 0 of any length up
\* to MaxKeyLen, and such a run ended by nibble 15; every pair of them is
\* equal, one a proper prefix of the other, or diverging after a shared run
ZeroRun(n) == [i \in 1..n |-> 0] \o <<>>

StoreKeys ==
    {ZeroRun(n) : n \in 0..MaxKeyLen} \cup {ZeroRun(n) \o <<15>> : n \in 0..(MaxKeyLen - 1)}

V1 == <<5>>
V2 == <<200, 1>>
Values == {V1, V2}

EmptyRoot == keccak256(<<128>>)

\* nodes a caller hands to insert directly
InsertNodes ==
    { Leaf(<<15>>, V1),
      Extension(<<0>>, hash(Leaf(<<15>>, V1))),
      Branch([EmptyBranchArr EXCEPT ![16] = Some(hash(Leaf(<<>>, V2)))]),
      Branch(EmptyBranchArr) }

\* ------------------------------------------------------------------------
\* Store specification: any sequence of insert, create_leaf,
\* create_branch_or_extension and remove on an initially empty store
\* ------------------------------------------------------------------------
NoCodec == /\ cIn = Unset /\ cMid = Unset /\ cOut = Unset

Init ==
    /\ nodes = NodesNew
    /\ root = EmptyRoot
    /\ kv = <<>>
    /\ last = [op |-> "new"]
    /\ steps = 0
    /\ NoCodec

Insert(n) ==
    /\ steps < MaxOps
    /\ \E r \in {insert(nodes, n)} :
       /\ nodes' = r.nodes
       /\ last' = [op |-> "insert", node |-> n, key |-> r.key, prior |-> r.prior]
    /\ steps' = steps + 1
    /\ UNCHANGED <<root, kv, cIn, cMid, cOut>>

CreateLeaf(key, value) ==
    /\ steps < MaxOps
    /\ \E r \in {create_leaf(nodes, key, value)} :
       /\ nodes' = r.nodes
       /\ last' = [op |-> "create_leaf", key |-> key, value |-> value, ret |-> r.key]
    /\ steps' = steps + 1
    /\ UNCHANGED <<root, kv, cIn, cMid, cOut>>

Remove(h) ==
    /\ steps < MaxOps
    /\ \E r \in {remove(nodes, h)} :
       /\ nodes' = r.nodes
       /\ last' = [op |-> "remove", hash |-> h, ret |-> r.prior]
    /\ steps' = steps + 1
    /\ UNCHANGED <<root, kv, cIn, cMid, cOut>>

CreateBranchOrExtension(key_a, value_a, key_b, value_b) ==
    /\ steps < MaxOps
    /\ \E r \in {create_branch_or_extension(nodes, key_a, value_a, key_b, value_b)} :
       /\ nodes' = r.nodes
       /\ last' = [op |-> "create_branch_or_extension",
                   key_a |-> key_a, value_a |-> value_a,
                   key_b |-> key_b, value_b |-> value_b, res |-> r.res]
    /\ steps' = steps + 1
    /\ UNCHANGED <<root, kv, cIn, cMid, cOut>>

ReturnedNodes ==
    IF last.op = "create_branch_or_extension" /\ IsOk(last.res) THEN {last.res.v} ELSE {}

Next ==
    \/ \E n \in InsertNodes \cup ReturnedNodes : Insert(n)
    \/ \E key \in StoreKeys, value \in Values : CreateLeaf(key, value)
    \/ \E h \in DOMAIN nodes \cup {EmptyRoot} : Remove(h)
    \/ \E key_a \in StoreKeys, key_b \in StoreKeys :
          CreateBranchOrExtension(key_a, V1, key_b, V2)

Spec == Init /\ [][Next]_vars

\* ------------------------------------------------------------------------
\* C1: in every reachable state of the store the key of every entry is the
\* keccak digest of the RLP of the node stored under it.
\* ------------------------------------------------------------------------
C1_KeyIsDigest ==
    \A d \in DOMAIN nodes : d = keccak256(to_raw_rlp(nodes[d]))

C1_Witness ==
    /\ Cardinality(DOMAIN nodes) >= 3
    /\ \E d \in DOMAIN nodes : nodes[d].type = "Branch"
    /\ \E d \in DOMAIN nodes : nodes[d].type = "Leaf"

\* ------------------------------------------------------------------------
\* Shorthands about the last create_branch_or_extension call
\* ------------------------------------------------------------------------
IsPrefix(a, b) == Len(a) <= Len(b) /\ SubSeq(b, 1, Len(a)) = a

LastIsCbe == last.op = "create_branch_or_extension"
LastCbeOk == LastIsCbe /\ IsOk(last.res)

\* the two key remainders after the common prefix
RemainderA(l) == SubSeq(l.key_a, Len(intersect(l.key_a, l.key_b)) + 1, Len(l.key_a))
RemainderB(l) == SubSeq(l.key_b, Len(intersect(l.key_a, l.key_b)) + 1, Len(l.key_b))

PopulatedSlots(arr) == {i \in 1..BranchLen : is_some(arr[i])}

\* the Branch the call built, as far as the state shows it: the returned
\* node itself, or the node stored under the child digest of the returned
\* Extension
BuiltBranch(l, ns) ==
    IF l.res.v.type = "Branch" THEN Some(l.res.v)
    ELSE IF l.res.v.type = "Extension" /\ l.res.v.node \in DOMAIN ns
    THEN Some(ns[l.res.v.node])
    ELSE None

\* ------------------------------------------------------------------------
\* C4: a successful create_branch_or_extension stores two leaves whose keys
\* are the key remainders with the diverging nibble removed, and the Branch
\* it builds has exactly the two diverging nibbles as populated slots,
\* holding the digests of these two leaves.
\* ------------------------------------------------------------------------
C4_LeafKeysDropNibble ==
    LastCbeOk =>
      LET ra == RemainderA(last)
          rb == RemainderB(last)
          leaf_a == Leaf(Tail(ra), last.value_a)
          leaf_b == Leaf(Tail(rb), last.value_b)
          ha == keccak256(to_raw_rlp(leaf_a))
          hb == keccak256(to_raw_rlp(leaf_b))
          br == BuiltBranch(last, nodes)
      IN  /\ ha \in DOMAIN nodes /\ nodes[ha] = leaf_a
          /\ hb \in DOMAIN nodes /\ nodes[hb] = leaf_b
          /\ is_some(br)
          /\ unwrap(br).type = "Branch"
          /\ PopulatedSlots(unwrap(br).arr) = {ra[1] + 1, rb[1] + 1}
          /\ unwrap(br).arr[ra[1] + 1] = Some(ha)
          /\ unwrap(br).arr[rb[1] + 1] = Some(hb)

C9_InsertIdempotent ==
    [][ last'.op = "insert" =>
          /\ \A d \in DOMAIN nodes :
                nodes[d] = last'.node =>
                   /\ last'.key = d
                   /\ last'.prior = Some(last'.node)
                   /\ nodes' = nodes
          /\ (\A d \in DOMAIN nodes : nodes[d] # last'.node) => last'.prior = None
          /\ last'.key \in DOMAIN nodes' /\ nodes'[last'.key] = last'.node
      ]_vars

C9_Witness ==
    /\ last.op = "insert"
    /\ last.prior = Some(last.node)
    /\ steps >= 2

\* ------------------------------------------------------------------------
\* C10: with a non-empty common prefix p the call inserts the Branch and
\* returns Extension{key: p, child: digest of the Branch}; with an empty
\* prefix it returns the Branch and does not insert it: the store gains the
\* two leaves, and an entry under the Branch's digest only if it had one.
\* ------------------------------------------------------------------------
C10_ExtensionOrBranch ==
    [][ (last'.op = "create_branch_or_extension" /\ IsOk(last'.res)) =>
          LET p == intersect(last'.key_a, last'.key_b)
              ret == last'.res.v
          IN  IF p # <<>>
              THEN /\ ret.type = "Extension"
                   /\ ret.key = p
                   /\ ret.node \in DOMAIN nodes'
                   /\ nodes'[ret.node].type = "Branch"
                   /\ ret.node = keccak256(to_raw_rlp(nodes'[ret.node]))
                   /\ LET leaves == {unwrap(nodes'[ret.node].arr[i]) :
                                        i \in PopulatedSlots(nodes'[ret.node].arr)}
                      IN  /\ Cardinality(leaves) = 2
                          /\ \A h \in leaves : h \in DOMAIN nodes' /\ nodes'[h].type = "Leaf"
                          /\ DOMAIN nodes' = DOMAIN nodes \cup leaves \cup {ret.node}
              ELSE /\ ret.type = "Branch"
                   /\ LET leaves == {unwrap(ret.arr[i]) : i \in PopulatedSlots(ret.arr)}
                          hb == keccak256(to_raw_rlp(ret))
                      IN  /\ Cardinality(leaves) = 2
                          /\ \A h \in leaves : h \in DOMAIN nodes' /\ nodes'[h].type = "Leaf"
                          /\ DOMAIN nodes' = DOMAIN nodes \cup leaves
                          /\ (hb \in DOMAIN nodes' <=> hb \in DOMAIN nodes)
      ]_vars

C10_WitnessExtension ==
    /\ LastCbeOk
    /\ last.res.v.type = "Extension"
    /\ last.res.v.node \in DOMAIN nodes

C10_WitnessBranch ==
    /\ LastCbeOk
    /\ last.res.v.type = "Branch"
    /\ keccak256(to_raw_rlp(last.res.v)) \notin DOMAIN nodes

\* ------------------------------------------------------------------------
\* Codec specification: from_raw_rlp and to_raw_rlp applied to bounded sets
\* of nodes, of lists of byte-string items, and of byte strings that are
\* not such lists
\* ------------------------------------------------------------------------
H1 == hash(Leaf(<<15>>, V1))
H2 == hash(Branch(EmptyBranchArr))
Digests == {H1, H2}

LongValue == [i \in 1..56 |-> i] \o <<>>
ShortHash == SubSeq(H1, 1, HashLen - 1)
LongHash == H1 \o <<7>>

\* branch arrays with at most MaxSlots populated slots, and the full one
RECURSIVE SlotSets(_)
SlotSets(n) ==
    IF n = 0 THEN {{}}
    ELSE LET smaller == SlotSets(n - 1) IN
         smaller \cup {S \cup {i} : S \in smaller, i \in 1..BranchLen}

BranchArrs ==
    {[i \in 1..BranchLen |-> IF i \in S THEN Some(H1) ELSE None] \o <<>> :
        S \in SlotSets(MaxSlots)}
    \cup {[i \in 1..BranchLen |-> IF i \in S THEN Some(H2) ELSE Some(H1)] \o <<>> :
        S \in SlotSets(1)}

WellFormedNodes ==
    {Leaf(k, v) : k \in Keys, v \in Values \cup {<<>>, H1, LongValue}}
    \cup {Extension(k, h) : k \in Keys, h \in Digests}
    \cup {Branch(arr) : arr \in BranchArrs}

\* compact paths as they may arrive: canonical ones, an even-length path
\* with a non-zero padding nibble, flag nibbles above 3, the empty string
PathItems ==
    {encode_path(k, t) : k \in Keys, t \in BOOLEAN}
    \cup {<<47>>, <<15, 240>>, <<96>>, <<80, 15>>, <<>>}

ValueItems == {<<>>, V1, V2, H1, ShortHash, LongHash, LongValue}

SlotItems == {<<>>, H1, H2, ShortHash, V1}

ItemLists ==
    {<<a, b>> : a \in PathItems, b \in ValueItems}
    \cup {[i \in 1..BranchLen |-> IF i \in S THEN x ELSE <<>>] \o <<>> :
            S \in SlotSets(MaxSlots), x \in SlotItems}
    \cup {[i \in 1..n |-> x] \o <<>> : n \in {0, 1, 3, 16, 18}, x \in {<<>>, H1, <<32>>}}

\* byte strings that are not a list of byte strings: not a list at all, a
\* truncated list, a list with a list as item
OtherBytes ==
    {<<>>, <<5>>, <<128>>, <<131, 1, 2, 3>>, <<194, 32>>, <<194, 192, 5>>, <<194, 32, 192>>,
     <<248, 81, 160>>, <<194, 129, 5, 5>>}

CodecInputs ==
    {[kind |-> "node", node |-> n] : n \in WellFormedNodes}
    \cup {[kind |-> "items", items |-> it, raw |-> RlpList(it)] : it \in ItemLists}
    \cup {[kind |-> "bytes", raw |-> b] : b \in OtherBytes}

InitCodec ==
    /\ nodes = NodesNew
    /\ root = EmptyRoot
    /\ kv = <<>>
    /\ last = [op |-> "new"]
    /\ steps = 0
    /\ cIn \in CodecInputs
    /\ cMid = Unset
    /\ cOut = Unset

\* n.to_raw_rlp() on the input node
ToRawRlp ==
    /\ cIn.kind = "node"
    /\ cMid = Unset
    /\ cMid' = Ok(to_raw_rlp(cIn.node))
    /\ UNCHANGED <<nodes, root, kv, last, steps, cIn, cOut>>

\* NodeData::from_raw_rlp on the bytes just produced
FromRawRlpBack ==
    /\ cIn.kind = "node"
    /\ IsOk(cMid)
    /\ cOut = Unset
    /\ cOut' = from_raw_rlp(cMid.v)
    /\ UNCHANGED <<nodes, root, kv, last, steps, cIn, cMid>>

\* NodeData::from_raw_rlp on the input bytes
FromRawRlp ==
    /\ cIn.kind # "node"
    /\ cMid = Unset
    /\ cMid' = from_raw_rlp(cIn.raw)
    /\ UNCHANGED <<nodes, root, kv, last, steps, cIn, cOut>>

\* to_raw_rlp on the node just decoded
ToRawRlpBack ==
    /\ cIn.kind # "node"
    /\ IsOk(cMid)
    /\ cOut = Unset
    /\ cOut' = Ok(to_raw_rlp(cMid.v))
    /\ UNCHANGED <<nodes, root, kv, last, steps, cIn, cMid>>

NextCodec == ToRawRlp \/ FromRawRlpBack \/ FromRawRlp \/ ToRawRlpBack

SpecCodec == InitCodec /\ [][NextCodec]_vars

\* ------------------------------------------------------------------------
\* C2: decoding the encoding of a well-formed node succeeds and returns
\* that node.
\* ------------------------------------------------------------------------
C2_DecodeEncode ==
    (cIn.kind = "node" /\ cOut # Unset) => cOut = Ok(cIn.node)

C2_WitnessBranch ==
    /\ cIn.kind = "node" /\ IsOk(cOut)
    /\ cOut.v.type = "Branch"
    /\ Cardinality(PopulatedSlots(cOut.v.arr)) = 2

C2_WitnessLeaf ==
    /\ cIn.kind = "node" /\ IsOk(cOut)
    /\ cOut.v.type = "Leaf" /\ Len(cOut.v.value) = HashLen /\ Len(cOut.v.key) = 2

\* ------------------------------------------------------------------------
\* C5: the result of from_raw_rlp on a list of byte strings follows from the
\* number of items and their lengths: two items with the terminator flag in
\* the first give a Leaf whose value is the second; two items without it
\* give an Extension when the second has HashLen bytes and an error
\* otherwise; BranchLen items give a Branch whose slot i is present exactly
\* when item i has HashLen bytes, and an error when an item is neither empty
\* nor HashLen bytes long; any other number of items gives an error.  (A
\* first item that is empty has no flag nibble and is left out.)
\* ------------------------------------------------------------------------
TerminatorFlag(path) == ((path[1] \div 16) \div 2) % 2 = 1

C5_WitnessBranch ==
    /\ cIn.kind = "items" /\ Len(cIn.items) = BranchLen /\ IsOk(cMid)
    /\ Cardinality(PopulatedSlots(cMid.v.arr)) = 2

\* ------------------------------------------------------------------------
\* C6 as stated: re-encoding any accepted byte string returns it unchanged.
\* ------------------------------------------------------------------------
C6_ReencodeAnyAccepted ==
    (cIn.kind # "node" /\ IsOk(cMid) /\ cOut # Unset) => cOut = Ok(cIn.raw)

\* the hex-prefix form encode_path produces: flag nibble 0..3, and a zero
\* padding nibble when the path has even length
CanonicalPath(path) ==
    /\ path # <<>>
    /\ path[1] \div 16 <= 3
    /\ (path[1] \div 16) % 2 = 0 => path[1] % 16 = 0

\* ------------------------------------------------------------------------
\* C6 amended: re-encoding an accepted list of byte strings returns it
\* unchanged when its compact path (the first of two items) is in the
\* canonical hex-prefix form; a 17-item list is always returned unchanged.
\* ------------------------------------------------------------------------
C6_ReencodeCanonical ==
    (/\ cIn.kind = "items" /\ IsOk(cMid) /\ cOut # Unset
     /\ Len(cIn.items) = 2 => CanonicalPath(cIn.items[1]))
       => cOut = Ok(cIn.raw)

C6_WitnessLeaf ==
    /\ cIn.kind = "items" /\ IsOk(cMid) /\ IsOk(cOut)
    /\ cMid.v.type = "Leaf" /\ Len(cMid.v.key) = 2
    /\ CanonicalPath(cIn.items[1])

C6_WitnessBranch ==
    /\ cIn.kind = "items" /\ IsOk(cMid) /\ IsOk(cOut)
    /\ cMid.v.type = "Branch" /\ Cardinality(PopulatedSlots(cMid.v.arr)) = 2

\* ------------------------------------------------------------------------
\* Trie { root, nodes }: get and set walk the store from root
\* ------------------------------------------------------------------------
\* Trie::get below the node with the given digest, for the remaining path
RECURSIVE get_at(_, _, _)
get_at(ns, digest, path) ==
    IF digest \notin DOMAIN ns THEN Err("NodeNotFound")
    ELSE LET n == ns[digest] IN
      IF n.type = "Leaf" THEN
         IF n.key = path THEN Ok(Some(n.value)) ELSE Ok(None)
      ELSE IF n.type = "Extension" THEN
         IF IsPrefix(n.key, path)
         THEN get_at(ns, n.node, slice(path, Len(n.key)).v)
         ELSE Ok(None)
      ELSE
         IF path = <<>> THEN Ok(n.arr[BranchLen])
         ELSE IF ~is_some(n.arr[path[1] + 1]) THEN Ok(None)
         ELSE get_at(ns, unwrap(n.arr[path[1] + 1]), Tail(path))

\* Trie::get
get(ns, rt, path) == IF rt = EmptyRoot THEN Ok(None) ELSE get_at(ns, rt, path)

\* a rewritten node is stored and named by its digest
store_node(ns, n) ==
    Bind(insert(ns, n), LAMBDA i : [res |-> Ok(i.key), nodes |-> i.nodes])

\* the child a rewrite produced replaces the old one in its parent
store_parent(r, Parent(_)) ==
    IF IsErr(r.res) THEN r ELSE store_node(r.nodes, Parent(r.res.v))

\* rewrite of an Extension whose key is not a prefix of the path
split_extension(ns, n, path, value) ==
    LET p == intersect(n.key, path)
        rest == slice(path, Len(p)).v
    IN
    IF rest = <<>> THEN [res |-> Err("KeyExhausted"), nodes |-> ns]
    ELSE
      Bind(IF Len(n.key) - Len(p) = 1
           THEN [key |-> n.node, nodes |-> ns]
           ELSE insert(ns, Extension(slice(n.key, Len(p) + 1).v, n.node)), LAMBDA old :
      Bind(create_leaf(old.nodes, slice(path, Len(p) + 1).v, value), LAMBDA new :
      Bind(store_node(new.nodes,
                      Branch([[EmptyBranchArr EXCEPT ![n.key[Len(p) + 1] + 1] = Some(old.key)]
                                 EXCEPT ![rest[1] + 1] = Some(new.key)])), LAMBDA ib :
        IF Len(p) > 0
        THEN store_node(ib.nodes, Extension(p, ib.res.v))
        ELSE ib)))

\* Trie::set below the node with the given digest: the digest of the
\* rewritten node, or the error, and the store as the call leaves it
RECURSIVE set_at(_, _, _, _)
set_at(ns, digest, path, value) ==
    IF digest \notin DOMAIN ns THEN [res |-> Err("NodeNotFound"), nodes |-> ns]
    ELSE LET n == ns[digest] IN
      IF n.type = "Leaf" THEN
         IF n.key = path
         THEN store_node(ns, Leaf(n.key, value))
         ELSE store_parent(create_branch_or_extension(ns, n.key, n.value, path, value),
                           LAMBDA c : c)
      ELSE IF n.type = "Extension" THEN
         IF IsPrefix(n.key, path)
         THEN store_parent(set_at(ns, n.node, slice(path, Len(n.key)).v, value),
                           LAMBDA child : Extension(n.key, child))
         ELSE split_extension(ns, n, path, value)
      ELSE
         IF path = <<>>
         THEN store_node(ns, Branch([n.arr EXCEPT ![BranchLen] = Some(value)]))
         ELSE IF ~is_some(n.arr[path[1] + 1])
         THEN store_parent(store_node(ns, Leaf(Tail(path), value)),
                           LAMBDA child : Branch([n.arr EXCEPT ![path[1] + 1] = Some(child)]))
         ELSE store_parent(set_at(ns, unwrap(n.arr[path[1] + 1]), Tail(path), value),
                           LAMBDA child : Branch([n.arr EXCEPT ![path[1] + 1] = Some(child)]))

\* Trie::set: the result, the store and the root it leaves
set(ns, rt, path, value) ==
    Bind(IF rt = EmptyRoot
         THEN store_node(ns, Leaf(path, value))
         ELSE set_at(ns, rt, path, value), LAMBDA r :
      [res |-> r.res, nodes |-> r.nodes, root |-> IF IsOk(r.res) THEN r.res.v ELSE rt])

\* paths handed to the trie
TrieKeys == StoreKeys \ {<<>>}

TrieSet(path, value, bound) ==
    /\ steps < bound
    /\ \E r \in {set(nodes, root, path, value)} :
       /\ nodes' = r.nodes
       /\ root' = r.root
       /\ kv' = IF IsOk(r.res)
                THEN [k \in DOMAIN kv \cup {path} |-> IF k = path THEN value ELSE kv[k]]
                ELSE kv
       /\ last' = [op |-> "set", path |-> path, value |-> value, res |-> r.res]
    /\ steps' = steps + 1
    /\ UNCHANGED <<cIn, cMid, cOut>>

TrieGet(path) ==
    /\ steps < MaxTrieOps
    /\ last' = [op |-> "get", path |-> path, res |-> get(nodes, root, path)]
    /\ steps' = steps + 1
    /\ UNCHANGED <<nodes, root, kv, cIn, cMid, cOut>>

\* ------------------------------------------------------------------------
\* Trie specification: set and get on an initially empty trie
\* ------------------------------------------------------------------------
NextTrie ==
    \/ \E path \in TrieKeys, value \in Values : TrieSet(path, value, MaxTrieOps)
    \/ \E path \in TrieKeys : TrieGet(path)

SpecTrie == Init /\ [][NextTrie]_vars

\* ------------------------------------------------------------------------
\* C3: after any sequence of successful sets on an initially empty trie,
\* get returns the value of the last set for every key that was set and
\* absent for every key never set.
\* ------------------------------------------------------------------------
C3_TrieRepresentsMap ==
    \A k \in TrieKeys :
       get(nodes, root, k) = Ok(IF k \in DOMAIN kv THEN Some(kv[k]) ELSE None)

\* ------------------------------------------------------------------------
\* Mutation specification: a trie that is empty or was built from an
\* externally provided root (no node known yet), mutated by set and by
\* create_branch_or_extension on its store
\* ------------------------------------------------------------------------
ExternalRoot == H1

InitAtomic ==
    /\ nodes = NodesNew
    /\ root \in {EmptyRoot, ExternalRoot}
    /\ kv = <<>>
    /\ last = [op |-> "new"]
    /\ steps = 0
    /\ NoCodec

NextAtomic ==
    \/ \E path \in TrieKeys, value \in Values : TrieSet(path, value, MaxOps)
    \/ \E key_a \in StoreKeys, key_b \in StoreKeys :
          CreateBranchOrExtension(key_a, V1, key_b, V2)

SpecAtomic == InitAtomic /\ [][NextAtomic]_vars

C7_WitnessSetPartial ==
    /\ last.op = "set" /\ IsErr(last.res) /\ last.res.e = "NodeNotFound"

C7_WitnessCreate ==
    /\ LastIsCbe /\ IsErr(last.res)
    /\ last.key_a # <<>> /\ last.key_b # <<>>
    /\ nodes # NodesNew

====
